---- MODULE Spec2Model ----
(***************************************************************************)
(* Barcode scanner backend of the inventory management system              *)
(* (src/Scanner/app.py): the barcode resolver, the inventory store and     *)
(* the add_or_update_inventory retry loop, run by concurrent /scan         *)
(* requests against one SQLite file.                                       *)
(*                                                                         *)
(* Strings whose characters matter (barcodes, prefixes) are sequences of   *)
(* one-character strings; product names, actions and error kinds are       *)
(* plain strings.                                                          *)
(***************************************************************************)
EXTENDS Integers, Sequences, FiniteSets, TLC

---------------------------------------------------------------------------
(* Bounds of the model *)

\* /scan requests the scanners issue in one run
MaxScans == 3

\* longest generated barcode of the resolver harness
MaxLen == 14

\* dashboard operations made in one run
MaxOps == 2

\* largest quantity of an order line
MaxQty == 2

\* concurrent scanner connections
Procs == {"scanner1", "scanner2"}

---------------------------------------------------------------------------
(* Program constants *)

\* retry_count = 5
retry_count == 5

\* len(scanned_barcode) >= 14
HyphenMinLen == 14

\* scanned_barcode[:11] if len(scanned_barcode) >= 11
LongPrefixLen == 11

\* scanned_barcode[:6]
ShortPrefixLen == 6

\* the list of internal device commands
InternalCommands ==
  { <<"I","n","v","e","n","t","o","r","y"," ","M","o","d","e">>,
    <<"E","x","i","t"," ","a","n","d"," ","S","a","v","e">> }

\* barcode_prefix_mapping: prefix -> product name, as <<prefix, name>> pairs
barcode_prefix_mapping ==
  { <<<<"7","1","0","1","3","4","8","7","5","2","3">>, "Alex Silver">>,
    <<<<"7","1","0","1","1","1","5","4","5","2","3">>, "Newport Silver">>,
    <<<<"7","1","0","1","1","1","5","3","5","2","3">>, "Newport White and Pink">>,
    <<<<"7","1","0","1","1","1","5","6","5","2","2">>, "Newport Copper">>,
    <<<<"7","1","0","1","1","1","5","5","5","2","3">>, "Newport White and Gold">>,
    <<<<"7","1","0","7","5","7","5","0","5","2","2">>, "Newport Gunmetal">>,
    <<<<"7","1","0","1","4","1","8","1","5","5","3">>, "Newport Blue">>,
    <<<<"7","1","0","1","1","1","5","1","5","2","2">>, "Newport Ebony and Gold">>,
    <<<<"1","1","0","4","8","1">>, "Brighton Natural">>,
    <<<<"2","1","0","4","7","7">>, "Silver Rose">>,
    <<<<"2","1","0","8","8","9">>, "Classic Ebony Gold">>,
    <<<<"1","1","0","6","4","9">>, "#430">>,
    <<<<"1","1","0","1","2","8">>, "Masterpiece">>,
    <<<<"4","1","0","2","0","4">>, "In God's Care">>,
    <<<<"2","1","0","9","2","3">>, "Dartmouth Blue">>,
    <<<<"2","1","0","6","5","4">>, "Roseboro">>,
    <<<<"2","1","0","9","2","1">>, "Dartmouth Bronze">>,
    <<<<"2","1","0","9","5","3">>, "Kessens Bronze">>,
    <<<<"1","1","0","4","1","1">>, "Nordon Pine">>,
    <<<<"1","1","0","6","6","4">>, "#435">>,
    <<<<"2","1","0","9","3","7">>, "Kessens Grey">> }

---------------------------------------------------------------------------
(* Python string operations used by the resolver *)

Min(a, b) == IF a < b THEN a ELSE b

\* characters str.strip() removes
Whitespace == {" ", "\t", "\n", "\r", "\f"}

RECURSIVE lstrip(_)
lstrip(s) ==
  IF s # <<>> /\ Head(s) \in Whitespace THEN lstrip(Tail(s)) ELSE s

RECURSIVE rstrip(_)
rstrip(s) ==
  IF s # <<>> /\ s[Len(s)] \in Whitespace
    THEN rstrip(SubSeq(s, 1, Len(s) - 1))
    ELSE s

\* str.strip()
strip(s) == rstrip(lstrip(s))

\* sep in s
Contains(s, sep) == \E i \in 1..Len(s) : s[i] = sep

\* s.split(sep): the list of the parts between the separators
RECURSIVE split(_, _)
split(s, sep) ==
  IF ~Contains(s, sep)
    THEN << s >>
    ELSE LET i == CHOOSE k \in 1..Len(s) :
                    s[k] = sep /\ \A j \in 1..(k - 1) : s[j] # sep
         IN  << SubSeq(s, 1, i - 1) >> \o split(SubSeq(s, i + 1, Len(s)), sep)

\* s[:n]
Slice(s, n) == SubSeq(s, 1, Min(n, Len(s)))

\* dict.get(key, default) on the prefix table
MappingKeys == { e[1] : e \in barcode_prefix_mapping }

\* the lookup written as a subscript: a missing key raises KeyError
MappingGet_subscript(key, default) ==
  IF key \in MappingKeys
    THEN (CHOOSE e \in barcode_prefix_mapping : e[1] = key)[2]
    ELSE "KeyError"

MappingGet(key, default) ==
  IF key \in MappingKeys
    THEN (CHOOSE e \in barcode_prefix_mapping : e[1] = key)[2]
    ELSE default

\* the hyphen rule with "len(scanned_barcode) > 14"
BarcodePrefix_strict(b) ==
  IF Len(b) > HyphenMinLen /\ Contains(b, "-")
    THEN split(b, "-")[1]
    ELSE IF Len(b) >= LongPrefixLen
           THEN Slice(b, LongPrefixLen)
           ELSE Slice(b, ShortPrefixLen)

\* the prefix derivation of add_or_update_inventory, on a stripped barcode
BarcodePrefix(b) ==
  IF Len(b) >= HyphenMinLen /\ Contains(b, "-")
    THEN split(b, "-")[1]
    ELSE IF Len(b) >= LongPrefixLen
           THEN Slice(b, LongPrefixLen)
           ELSE Slice(b, ShortPrefixLen)

\* product_name = barcode_prefix_mapping.get(barcode_prefix, 'Unknown')
ProductName(prefix) == MappingGet(prefix, "Unknown")

---------------------------------------------------------------------------
(* Scanned inputs of the model *)

NewportA == <<"7","1","0","1","1","1","5","4","5","2","3","-","9","9">>
NewportB == <<"7","1","0","1","1","1","5","4","5","2","3">>
UnknownA == <<"9","9","9","9","9","9">>
CmdInventoryMode == <<"I","n","v","e","n","t","o","r","y"," ","M","o","d","e">>
CmdExitAndSave == <<"E","x","i","t"," ","a","n","d"," ","S","a","v","e">>
Blank == <<" ", " ">>

\* barcode strings a scanner posts to /scan
Inputs == {NewportA, NewportB, UnknownA, CmdInventoryMode, CmdExitAndSave}

\* an internal command as a scanner sends it with surrounding whitespace
PaddedInventoryMode == <<" ">> \o CmdInventoryMode \o <<" ">>

\* barcode strings at the edge of the input checks: whitespace only, an
\* internal command in whitespace, and an unmapped code for comparison
EdgeInputs == {Blank, PaddedInventoryMode, UnknownA}

\* data.get('barcode'): a JSON value; "null" is also the absent key
JStr(b) == [type |-> "string", str |-> b, num |-> 0]
JNum(n) == [type |-> "number", str |-> <<>>, num |-> n]
JNull == [type |-> "null", str |-> <<>>, num |-> 0]
NoRequest == [type |-> "none", str |-> <<>>, num |-> 0]

\* barcode fields of the /scan requests of the model
Requests == { JStr(b) : b \in Inputs \cup {<<>>} } \cup {JNull, JNum(7)}
EdgeRequests == { JStr(b) : b \in EdgeInputs \cup {<<>>} } \cup {JNull, JNum(7)}

---------------------------------------------------------------------------
(* State *)

VARIABLES
  store,            \* the inventory table: row id -> row, ids 1..Len(store)
  lock,             \* holder of the SQLite write lock
  pc,               \* position of each request in add_or_update_inventory
  attempt,          \* loop variable of "for attempt in range(retry_count)"
  scanned_barcode,  \* the local variable, stripped inside the first attempt
  product_name,     \* the resolved product name of the attempt
  item,             \* the row object the session holds, not yet committed
  action,           \* 'added' / 'updated' of the attempt
  outcome,          \* what the call returned or raised
  published,        \* messages the call handed to the MQTT client
  arg,              \* the barcode string the call was given
  contended,        \* "database is locked" errors met by the call
  ops,              \* storage statements of the attempt in progress or last made
  nscans,           \* calls made so far
  nreturned,        \* calls that returned 'added' or 'updated' so far
  fault,            \* the last error a storage statement raised in the call
  history,          \* the committed scans, oldest first
  rs,               \* resolver harness: input, and prefix/name once resolved
  request,          \* the barcode field of the /scan request being handled
  response,         \* status code of the connection's last /scan response
  dpc,              \* position of the dashboard callback in progress
  dses,             \* the dashboard callback's inputs and its session
  table,            \* the rows the dashboard's inventory table shows
  dlog,             \* the orders committed by the dashboard, oldest first
  nops              \* dashboard operations made so far

vars == << store, lock, pc, attempt, scanned_barcode, product_name, item,
           action, outcome, published, arg, contended, ops, nscans,
           nreturned, fault, history, rs, request, response,
           dpc, dses, table, dlog, nops >>

\* the variables of the dashboard
dash == << dpc, dses, table, dlog, nops >>

\* the variables of one request
locals == << attempt, scanned_barcode, product_name, item, action, outcome,
             published, arg, contended, ops, fault, request >>

NoProc == "none"
NoItem == [id |-> -1, barcode |-> <<>>, product_name |-> "", quantity |-> 0]
NoResolve == [phase |-> "off", raw |-> <<>>, prefix |-> <<>>, name |-> ""]

\* the dashboard as holder of the write lock
Dash == "dashboard"

\* a session's modified rows: row id -> new quantity
NoDirty == [i \in {} |-> 0]

\* no dashboard callback in progress
NoSession == [kind |-> "none", items |-> <<>>, idx |-> 0, dirty |-> NoDirty,
              new |-> <<>>, result |-> "none", events |-> <<>>]

\* kinds of failure a storage statement can raise
Faults == {"locked", "dberr", "exc"}

\* pcs at which the next statement is a storage statement
StoragePcs == {"begin", "by_barcode", "by_name", "commit"}

Init ==
  /\ store = <<>>
  /\ lock = NoProc
  /\ pc = [p \in Procs |-> "idle"]
  /\ attempt = [p \in Procs |-> 0]
  /\ scanned_barcode = [p \in Procs |-> <<>>]
  /\ product_name = [p \in Procs |-> ""]
  /\ item = [p \in Procs |-> NoItem]
  /\ action = [p \in Procs |-> "none"]
  /\ outcome = [p \in Procs |-> "none"]
  /\ published = [p \in Procs |-> <<>>]
  /\ arg = [p \in Procs |-> <<>>]
  /\ contended = [p \in Procs |-> 0]
  /\ ops = [p \in Procs |-> {}]
  /\ nscans = 0
  /\ nreturned = 0
  /\ fault = [p \in Procs |-> "none"]
  /\ history = <<>>
  /\ request = [p \in Procs |-> NoRequest]
  /\ response = [p \in Procs |-> 0]
  /\ dpc = "idle"
  /\ dses = NoSession
  /\ table = <<>>
  /\ dlog = <<>>
  /\ nops = 0
  /\ rs = NoResolve

---------------------------------------------------------------------------
(* Queries of the session *)

\* ids of the rows a filter matches
RowsByBarcode(b) == { i \in 1..Len(store) : store[i].barcode = b }
RowsByProduct(n) == { i \in 1..Len(store) : store[i].product_name = n }

\* Query.first(): the first matching row in rowid order, 0 when none
First(ids) == IF ids = {} THEN 0 ELSE CHOOSE i \in ids : \A j \in ids : i <= j

\* the row with id i as a session object
Loaded(i) == [id |-> i, barcode |-> store[i].barcode,
              product_name |-> store[i].product_name,
              quantity |-> store[i].quantity]

\* barcode=None of a manually added row
NullBarcode == <<"NULL">>

\* Column(String, unique=True): no two rows of table t with one barcode;
\* NULLs are distinct from each other
UniqueBarcodes(t) ==
  \A i, j \in 1..Len(t) :
    (t[i].barcode = t[j].barcode /\ t[i].barcode # NullBarcode) => i = j

\* the table after the session's flush of obj
Flushed(obj) ==
  LET row == [barcode |-> obj.barcode, product_name |-> obj.product_name,
              quantity |-> obj.quantity]
  IN  IF obj.id = 0 THEN Append(store, row)
                    ELSE [store EXCEPT ![obj.id] = row]

---------------------------------------------------------------------------
(* add_or_update_inventory *)

\* the check with a command list that lacks "Exit and Save"
IsInternalCommand_short(b) == b = CmdInventoryMode

\* if scanned_barcode in ["Inventory Mode", "Exit and Save"]
IsInternalCommand(b) == b \in InternalCommands

\* the call that publishes a 'skipped' event for an internal command
Call_publishSkipped(p, b) ==
  /\ pc[p] = "idle"
  /\ nscans < MaxScans
  /\ nscans' = nscans + 1
  /\ request' = [request EXCEPT ![p] = JStr(b)]
  /\ response' = [response EXCEPT ![p] = 0]
  /\ arg' = [arg EXCEPT ![p] = b]
  /\ scanned_barcode' = [scanned_barcode EXCEPT ![p] = b]
  /\ IF IsInternalCommand(b)
       THEN /\ pc' = [pc EXCEPT ![p] = "returned"]
            /\ outcome' = [outcome EXCEPT ![p] = "skipped"]
            /\ published' = [published EXCEPT ![p] = Append(@,
                 [action |-> "skipped", barcode |-> b, product_name |-> "",
                  quantity |-> 0, rc |-> "ok"])]
       ELSE /\ pc' = [pc EXCEPT ![p] = "begin"]
            /\ outcome' = [outcome EXCEPT ![p] = "none"]
            /\ UNCHANGED published
  /\ UNCHANGED << store, lock, attempt, product_name, item, action,
                  contended, ops, nreturned, fault, history, rs,
                  dash >>

\* the request is handed to add_or_update_inventory: the call, up to the
\* internal-command check
Call(p, b) ==
  /\ pc[p] = "idle"
  /\ nscans < MaxScans
  /\ nscans' = nscans + 1
  /\ request' = [request EXCEPT ![p] = JStr(b)]
  /\ response' = [response EXCEPT ![p] = 0]
  /\ arg' = [arg EXCEPT ![p] = b]
  /\ scanned_barcode' = [scanned_barcode EXCEPT ![p] = b]
  /\ IF IsInternalCommand(b)
       THEN /\ pc' = [pc EXCEPT ![p] = "returned"]
            /\ outcome' = [outcome EXCEPT ![p] = "skipped"]
       ELSE /\ pc' = [pc EXCEPT ![p] = "begin"]
            /\ outcome' = [outcome EXCEPT ![p] = "none"]
  /\ UNCHANGED << store, lock, attempt, product_name, item, action,
                  published, contended, ops, nreturned, fault,
                  history, rs,
                  dash >>

\* the attempt opened with a deferred BEGIN: no write lock is taken
Begin_deferred(p) ==
  /\ pc[p] = "begin"
  /\ LET b == strip(scanned_barcode[p])
     IN  /\ scanned_barcode' = [scanned_barcode EXCEPT ![p] = b]
         /\ product_name' =
              [product_name EXCEPT ![p] = ProductName(BarcodePrefix(b))]
  /\ ops' = [ops EXCEPT ![p] = {"BEGIN IMMEDIATE"}]
  /\ pc' = [pc EXCEPT ![p] = "by_barcode"]
  /\ UNCHANGED << store, lock, attempt, item, action, outcome, published,
                  arg, contended, nscans, nreturned, fault, history, rs,
                  request, response,
                  dash >>

\* BEGIN IMMEDIATE takes the write lock; then strip and resolve
Begin(p) ==
  /\ pc[p] = "begin"
  /\ lock = NoProc
  /\ lock' = p
  /\ LET b == strip(scanned_barcode[p])
     IN  /\ scanned_barcode' = [scanned_barcode EXCEPT ![p] = b]
         /\ product_name' =
              [product_name EXCEPT ![p] = ProductName(BarcodePrefix(b))]
  /\ ops' = [ops EXCEPT ![p] = {"BEGIN IMMEDIATE"}]
  /\ pc' = [pc EXCEPT ![p] = "by_barcode"]
  /\ UNCHANGED << store, attempt, item, action, outcome, published, arg,
                  contended, nscans, nreturned, fault,
                  history, rs,
                  request, response,
                  dash >>

\* the barcode lookup without "existing_barcode_item.quantity += 1"
LookupBarcode_noIncrement(p) ==
  /\ pc[p] = "by_barcode"
  /\ ops' = [ops EXCEPT ![p] = @ \cup {"SELECT by barcode"}]
  /\ LET i == First(RowsByBarcode(scanned_barcode[p]))
     IN  IF i # 0
           THEN /\ item' = [item EXCEPT ![p] = Loaded(i)]
                /\ action' = [action EXCEPT ![p] = "updated"]
                /\ pc' = [pc EXCEPT ![p] = "commit"]
           ELSE /\ pc' = [pc EXCEPT ![p] = "by_name"]
                /\ UNCHANGED << item, action,
                  dash >>
  /\ UNCHANGED << store, lock, attempt, scanned_barcode, product_name,
                  outcome, published, arg, contended, nscans, nreturned,
                  fault, history, rs,
                  request, response,
                  dash >>

\* the barcode lookup that goes on to the product-name lookup on a match
LookupBarcode_fallthrough(p) ==
  /\ pc[p] = "by_barcode"
  /\ ops' = [ops EXCEPT ![p] = @ \cup {"SELECT by barcode"}]
  /\ pc' = [pc EXCEPT ![p] = "by_name"]
  /\ UNCHANGED << store, lock, attempt, scanned_barcode, product_name, item,
                  action, outcome, published, arg, contended, nscans,
                  nreturned, fault, history, rs,
                  request, response,
                  dash >>

\* filter_by(barcode=scanned_barcode).first() and the branch on it
LookupBarcode(p) ==
  /\ pc[p] = "by_barcode"
  /\ ops' = [ops EXCEPT ![p] = @ \cup {"SELECT by barcode"}]
  /\ LET i == First(RowsByBarcode(scanned_barcode[p]))
     IN  IF i # 0
           THEN /\ item' = [item EXCEPT ![p] =
                      [Loaded(i) EXCEPT !.quantity = @ + 1]]
                /\ action' = [action EXCEPT ![p] = "updated"]
                /\ pc' = [pc EXCEPT ![p] = "commit"]
           ELSE /\ pc' = [pc EXCEPT ![p] = "by_name"]
                /\ UNCHANGED << item, action,
                  dash >>
  /\ UNCHANGED << store, lock, attempt, scanned_barcode, product_name,
                  outcome, published, arg, contended, nscans, nreturned,
                  fault,
                  history, rs,
                  request, response,
                  dash >>

\* the product-name lookup without "item.barcode = scanned_barcode"
LookupProduct_keepBarcode(p) ==
  /\ pc[p] = "by_name"
  /\ ops' = [ops EXCEPT ![p] = @ \cup {"SELECT by product_name"}]
  /\ LET i == First(RowsByProduct(product_name[p]))
     IN  IF i # 0
           THEN /\ item' = [item EXCEPT ![p] =
                      [Loaded(i) EXCEPT !.quantity = @ + 1]]
                /\ action' = [action EXCEPT ![p] = "updated"]
           ELSE /\ item' = [item EXCEPT ![p] =
                      [id |-> 0, barcode |-> scanned_barcode[p],
                       product_name |-> product_name[p], quantity |-> 1]]
                /\ action' = [action EXCEPT ![p] = "added"]
  /\ pc' = [pc EXCEPT ![p] = "commit"]
  /\ UNCHANGED << store, lock, attempt, scanned_barcode, product_name,
                  outcome, published, arg, contended, nscans, nreturned,
                  fault, history, rs,
                  request, response,
                  dash >>

\* the product-name lookup without its filter: the first row of the table
LookupProduct_anyRow(p) ==
  /\ pc[p] = "by_name"
  /\ ops' = [ops EXCEPT ![p] = @ \cup {"SELECT by product_name"}]
  /\ LET i == First(1..Len(store))
     IN  IF i # 0
           THEN /\ item' = [item EXCEPT ![p] =
                      [Loaded(i) EXCEPT !.quantity = @ + 1,
                                        !.barcode = scanned_barcode[p]]]
                /\ action' = [action EXCEPT ![p] = "updated"]
           ELSE /\ item' = [item EXCEPT ![p] =
                      [id |-> 0, barcode |-> scanned_barcode[p],
                       product_name |-> product_name[p], quantity |-> 1]]
                /\ action' = [action EXCEPT ![p] = "added"]
  /\ pc' = [pc EXCEPT ![p] = "commit"]
  /\ UNCHANGED << store, lock, attempt, scanned_barcode, product_name,
                  outcome, published, arg, contended, nscans, nreturned,
                  fault, history, rs, request, response, dash >>

\* filter_by(product_name=product_name).first() and the branch on it
LookupProduct(p) ==
  /\ pc[p] = "by_name"
  /\ ops' = [ops EXCEPT ![p] = @ \cup {"SELECT by product_name"}]
  /\ LET i == First(RowsByProduct(product_name[p]))
     IN  IF i # 0
           THEN /\ item' = [item EXCEPT ![p] =
                      [Loaded(i) EXCEPT !.quantity = @ + 1,
                                        !.barcode = scanned_barcode[p]]]
                /\ action' = [action EXCEPT ![p] = "updated"]
           ELSE /\ item' = [item EXCEPT ![p] =
                      [id |-> 0, barcode |-> scanned_barcode[p],
                       product_name |-> product_name[p], quantity |-> 1]]
                /\ action' = [action EXCEPT ![p] = "added"]
  /\ pc' = [pc EXCEPT ![p] = "commit"]
  /\ UNCHANGED << store, lock, attempt, scanned_barcode, product_name,
                  outcome, published, arg, contended, nscans, nreturned,
                  fault,
                  history, rs,
                  request, response,
                  dash >>

\* publish_to_mqtt raising on a result code other than success: the
\* exception reaches "except Exception", which rolls back and re-raises
Publish_raises(p, rc) ==
  /\ pc[p] = "publish"
  /\ IF rc = "ok"
       THEN /\ published' = [published EXCEPT ![p] = Append(@,
                 [action |-> action[p], barcode |-> scanned_barcode[p],
                  product_name |-> product_name[p],
                  quantity |-> item[p].quantity, rc |-> rc])]
            /\ outcome' = [outcome EXCEPT ![p] = action[p]]
            /\ nreturned' = nreturned + 1
            /\ pc' = [pc EXCEPT ![p] = "returned"]
       ELSE /\ outcome' = [outcome EXCEPT ![p] = "exc"]
            /\ pc' = [pc EXCEPT ![p] = "raised"]
            /\ UNCHANGED << published, nreturned,
                  dash >>
  /\ attempt' = [attempt EXCEPT ![p] = 0]
  /\ contended' = [contended EXCEPT ![p] = 0]
  /\ fault' = [fault EXCEPT ![p] = "none"]
  /\ UNCHANGED << store, lock, scanned_barcode, product_name, item, action,
                  arg, ops, nscans, history, rs, request, response,
                  dash >>

\* the event built from an object expired by the commit: its quantity is
\* read again from the table when the event is built
Publish_expired(p, rc) ==
  /\ pc[p] = "publish"
  /\ published' = [published EXCEPT ![p] = Append(@,
       [action |-> action[p], barcode |-> scanned_barcode[p],
        product_name |-> product_name[p],
        quantity |-> store[item[p].id].quantity, rc |-> rc])]
  /\ outcome' = [outcome EXCEPT ![p] = action[p]]
  /\ nreturned' = nreturned + 1
  /\ attempt' = [attempt EXCEPT ![p] = 0]
  /\ contended' = [contended EXCEPT ![p] = 0]
  /\ fault' = [fault EXCEPT ![p] = "none"]
  /\ pc' = [pc EXCEPT ![p] = "returned"]
  /\ UNCHANGED << store, lock, scanned_barcode, product_name, item, action,
                  arg, ops, nscans, history, rs, request, response, dash >>

\* publish_to_mqtt, then "return action"; rc is the client's result code.
\* The loop's counters end with the function's frame.
Publish(p, rc) ==
  /\ pc[p] = "publish"
  /\ published' = [published EXCEPT ![p] = Append(@,
       [action |-> action[p], barcode |-> scanned_barcode[p],
        product_name |-> product_name[p], quantity |-> item[p].quantity,
        rc |-> rc])]
  /\ outcome' = [outcome EXCEPT ![p] = action[p]]
  /\ nreturned' = nreturned + 1
  /\ attempt' = [attempt EXCEPT ![p] = 0]
  /\ contended' = [contended EXCEPT ![p] = 0]
  /\ fault' = [fault EXCEPT ![p] = "none"]
  /\ pc' = [pc EXCEPT ![p] = "returned"]
  /\ UNCHANGED << store, lock, scanned_barcode, product_name, item, action,
                  arg, ops, nscans, history, rs,
                  request, response,
                  dash >>

\* the except clauses, the finally clause and the loop's continue, for an
\* error of the given kind raised by a storage statement of p:
\* retryable says whether the handler takes the error for contention,
\* budget is the loop's range, after is the table the rollback leaves.
\* The loop's counters end with the function's frame when it raises.
Handle(p, kind, retryable, budget, after) ==
  /\ pc[p] \in StoragePcs
  /\ store' = after
  /\ lock' = IF lock = p THEN NoProc ELSE lock
  /\ item' = [item EXCEPT ![p] = NoItem]
  /\ action' = [action EXCEPT ![p] = "none"]
  /\ fault' = [fault EXCEPT ![p] = kind]
  /\ IF retryable /\ attempt[p] + 1 < budget
       THEN /\ pc' = [pc EXCEPT ![p] = "begin"]
            /\ attempt' = [attempt EXCEPT ![p] = @ + 1]
            /\ contended' = [contended EXCEPT ![p] =
                                IF kind = "locked" THEN @ + 1 ELSE @]
            /\ ops' = [ops EXCEPT ![p] = {}]
            /\ UNCHANGED outcome
       ELSE /\ pc' = [pc EXCEPT ![p] = "raised"]
            /\ outcome' = [outcome EXCEPT ![p] =
                             IF retryable THEN "lock_exhausted" ELSE kind]
            /\ attempt' = [attempt EXCEPT ![p] = 0]
            /\ contended' = [contended EXCEPT ![p] = 0]
            /\ UNCHANGED ops
  /\ UNCHANGED << scanned_barcode, product_name, published, arg, nscans,
                  nreturned, history, rs,
                  request, response,
                  dash >>

\* the handler with a loop of range(retry_count - 1)
Fail_shortBudget(p, kind) ==
  Handle(p, kind, kind = "locked", retry_count - 1, store)

\* the handler that retries on every SQLAlchemyError
Fail_retryAll(p, kind) ==
  Handle(p, kind, kind \in {"locked", "dberr"}, retry_count, store)

\* the handler without session.rollback(): an error raised by the commit
\* leaves the flushed row in the table
Fail_noRollback(p, kind) ==
  Handle(p, kind, kind = "locked", retry_count,
         IF pc[p] = "commit" THEN Flushed(item[p]) ELSE store)

\* the handler that, when the commit finds the database locked, tries the
\* commit again with the object it loaded instead of starting the attempt
\* over
Fail_retryCommit(p, kind) ==
  IF kind = "locked" /\ pc[p] = "commit" /\ attempt[p] + 1 < retry_count
    THEN /\ lock' = IF lock = p THEN NoProc ELSE lock
         /\ attempt' = [attempt EXCEPT ![p] = @ + 1]
         /\ contended' = [contended EXCEPT ![p] = @ + 1]
         /\ fault' = [fault EXCEPT ![p] = kind]
         /\ UNCHANGED << store, pc, item, action, ops, outcome,
                         scanned_barcode, product_name, published, arg,
                         nscans, nreturned, history, rs, request, response,
                         dash >>
    ELSE Handle(p, kind, kind = "locked", retry_count, store)

\* a storage statement raises: "database is locked" is retried while the
\* loop has attempts left, anything else is raised at once
Fail(p, kind) ==
  Handle(p, kind, kind = "locked", retry_count, store)

\* session.commit(): flush the object, commit, release the lock; a flush
\* that would break UNIQUE(barcode) raises IntegrityError instead
Commit(p) ==
  /\ pc[p] = "commit"
  /\ IF UniqueBarcodes(Flushed(item[p]))
       THEN /\ store' = Flushed(item[p])
            /\ item' = [item EXCEPT ![p].id =
                                      IF @ = 0 THEN Len(store) + 1 ELSE @]
            /\ lock' = NoProc
            /\ ops' = [ops EXCEPT ![p] = @ \cup {"COMMIT"}]
            /\ history' = Append(history,
                 [barcode |-> scanned_barcode[p], action |-> action[p],
                  quantity |-> item[p].quantity])
            /\ pc' = [pc EXCEPT ![p] = "publish"]
            /\ UNCHANGED << attempt, scanned_barcode, product_name, action,
                            outcome, published, arg, contended, nscans,
                            nreturned, fault, rs, request, response, dash >>
       ELSE Fail(p, "integrity")

---------------------------------------------------------------------------
(* scan: the /scan endpoint around add_or_update_inventory *)

\* Python truth value of a JSON value
Truthy(v) ==
  CASE v.type = "string" -> v.str # <<>>
    [] v.type = "number" -> v.num # 0
    [] OTHER -> FALSE

\* the check without "not isinstance(barcode_data, str)"
Invalid_truthyOnly(v) == ~Truthy(v)

\* if not barcode_data or not isinstance(barcode_data, str)
Invalid(v) == ~Truthy(v) \/ v.type # "string"

\* a request that passes the check is handed to add_or_update_inventory
Scan(p, v) ==
  /\ ~Invalid(v)
  /\ Call(p, v.str)

\* a request that fails the check: "Invalid barcode provided."
Reject(p, v) ==
  /\ pc[p] = "idle"
  /\ nscans < MaxScans
  /\ Invalid(v)
  /\ nscans' = nscans + 1
  /\ request' = [request EXCEPT ![p] = v]
  /\ response' = [response EXCEPT ![p] = 0]
  /\ pc' = [pc EXCEPT ![p] = "rejected"]
  /\ UNCHANGED << store, lock, attempt, scanned_barcode, product_name, item,
                  action, outcome, published, arg, contended, ops, nreturned,
                  fault, history, rs,
                  dash >>

\* the status that answers 200 also when add_or_update_inventory raised
StatusOf_swallow(p) ==
  IF pc[p] = "rejected" THEN 400 ELSE 200

\* the status code of scan's return statements and except clauses
StatusOf(p) ==
  IF pc[p] = "rejected" THEN 400
  ELSE IF pc[p] = "returned" THEN 200
  ELSE 500

\* scan returns its response; the request's variables are gone
Finish(p) ==
  /\ pc[p] \in {"returned", "raised", "rejected"}
  /\ response' = [response EXCEPT ![p] = StatusOf(p)]
  /\ pc' = [pc EXCEPT ![p] = "idle"]
  /\ attempt' = [attempt EXCEPT ![p] = 0]
  /\ scanned_barcode' = [scanned_barcode EXCEPT ![p] = <<>>]
  /\ product_name' = [product_name EXCEPT ![p] = ""]
  /\ item' = [item EXCEPT ![p] = NoItem]
  /\ action' = [action EXCEPT ![p] = "none"]
  /\ outcome' = [outcome EXCEPT ![p] = "none"]
  /\ published' = [published EXCEPT ![p] = <<>>]
  /\ arg' = [arg EXCEPT ![p] = <<>>]
  /\ contended' = [contended EXCEPT ![p] = 0]
  /\ ops' = [ops EXCEPT ![p] = {}]
  /\ fault' = [fault EXCEPT ![p] = "none"]
  /\ request' = [request EXCEPT ![p] = NoRequest]
  /\ UNCHANGED << store, lock, nscans, nreturned, history, rs,
                  dash >>

Next ==
  \/ \E p \in Procs, v \in Requests : Scan(p, v)
  \/ \E p \in Procs, v \in Requests : Reject(p, v)
  \/ \E p \in Procs : Begin(p)
  \/ \E p \in Procs : LookupBarcode(p)
  \/ \E p \in Procs : LookupProduct(p)
  \/ \E p \in Procs : Commit(p)
  \/ \E p \in Procs, rc \in {"ok", "err"} : Publish(p, rc)
  \/ \E p \in Procs, k \in Faults : Fail(p, k)
  \/ \E p \in Procs : Finish(p)

Spec == Init /\ [][Next]_vars

---------------------------------------------------------------------------
(* The resolver on its own: strip, prefix derivation and table lookup of   *)
(* add_or_update_inventory applied to one input string.                    *)

\* characters of the generated barcodes
Alphabet == {"1", "-"}

Generated == UNION { [1..n -> Alphabet] : n \in 0..MaxLen }

\* the table's keys, bare, with a lot suffix, and wrapped in whitespace
Keyed ==
  UNION { { k, k \o <<"-","9","9">>, k \o <<"-","1","2","3","4","5","6","7">>,
            <<" ">> \o k \o <<"\n">>, k \o <<"9","9">> } : k \in MappingKeys }

ResolverInputs == Generated \cup Keyed \cup Inputs \cup { <<" ", "\t">> }

Resolve ==
  /\ rs.phase = "in"
  /\ LET b == strip(rs.raw)
         prefix == BarcodePrefix(b)
     IN  rs' = [phase |-> "out", raw |-> rs.raw, prefix |-> prefix,
                name |-> ProductName(prefix)]
  /\ UNCHANGED << store, lock, pc, attempt, scanned_barcode, product_name,
                  item, action, outcome, published, arg, contended, ops,
                  nscans, nreturned, fault, history, request, response,
                  dash >>

InitResolve ==
  /\ store = <<>>
  /\ lock = NoProc
  /\ pc = [p \in Procs |-> "idle"]
  /\ attempt = [p \in Procs |-> 0]
  /\ scanned_barcode = [p \in Procs |-> <<>>]
  /\ product_name = [p \in Procs |-> ""]
  /\ item = [p \in Procs |-> NoItem]
  /\ action = [p \in Procs |-> "none"]
  /\ outcome = [p \in Procs |-> "none"]
  /\ published = [p \in Procs |-> <<>>]
  /\ arg = [p \in Procs |-> <<>>]
  /\ contended = [p \in Procs |-> 0]
  /\ ops = [p \in Procs |-> {}]
  /\ nscans = 0
  /\ nreturned = 0
  /\ fault = [p \in Procs |-> "none"]
  /\ history = <<>>
  /\ request = [p \in Procs |-> NoRequest]
  /\ response = [p \in Procs |-> 0]
  /\ dpc = "idle"
  /\ dses = NoSession
  /\ table = <<>>
  /\ dlog = <<>>
  /\ nops = 0
  /\ rs \in { [phase |-> "in", raw |-> r, prefix |-> <<>>, name |-> ""] :
              r \in ResolverInputs }

NextResolve == Resolve

SpecResolve == InitResolve /\ [][NextResolve]_vars

---------------------------------------------------------------------------
(* Concurrent scans of one new barcode, with contention injected *)

NextSame ==
  \/ \E p \in Procs : Call(p, NewportA)
  \/ \E p \in Procs : Begin(p)
  \/ \E p \in Procs : LookupBarcode(p)
  \/ \E p \in Procs : LookupProduct(p)
  \/ \E p \in Procs : Commit(p)
  \/ \E p \in Procs, rc \in {"ok", "err"} : Publish(p, rc)
  \/ \E p \in Procs : Fail(p, "locked")
  \/ \E p \in Procs : Finish(p)

SpecSame == Init /\ [][NextSame]_vars

---------------------------------------------------------------------------
(* /scan requests at the edge of the input check *)

NextEdge ==
  \/ \E p \in Procs, v \in EdgeRequests : Scan(p, v)
  \/ \E p \in Procs, v \in EdgeRequests : Reject(p, v)
  \/ \E p \in Procs : Begin(p)
  \/ \E p \in Procs : LookupBarcode(p)
  \/ \E p \in Procs : LookupProduct(p)
  \/ \E p \in Procs : Commit(p)
  \/ \E p \in Procs, rc \in {"ok", "err"} : Publish(p, rc)
  \/ \E p \in Procs, k \in Faults : Fail(p, k)
  \/ \E p \in Procs : Finish(p)

SpecEdge == Init /\ [][NextEdge]_vars

---------------------------------------------------------------------------
(* The dashboard: one callback at a time, on the same inventory table.     *)
(* An ORM session reads without a lock and writes the quantities it        *)
(* computed when it flushes; the flush takes the write lock.               *)

\* the variables of the scanners' requests and the resolver harness
scans == << pc, attempt, scanned_barcode, product_name, item, action,
            outcome, published, arg, contended, ops, nscans, nreturned,
            fault, history, rs, request, response >>

\* product names the dashboard's forms offer
Products == {"Newport Silver", "Unknown"}

\* line items of an order: quantity <= 0 is refused before the session opens
OrderItems == { [casket |-> n, quantity |-> q] : n \in Products, q \in 1..MaxQty }

\* order_items of an order of one line
SingleOrders == { <<a>> : a \in OrderItems }

\* the session has something to write
NeedsWrite(s) == s.dirty # NoDirty \/ s.new # <<>>

\* the modified rows with row i set to quantity q
Put(dirty, i, q) ==
  [j \in DOMAIN dirty \cup {i} |-> IF j = i THEN q ELSE dirty[j]]

\* a flush that also deletes the rows it leaves with quantity 0
Written_dropEmpty(s) ==
  SelectSeq([j \in 1..Len(store) |->
               IF j \in DOMAIN s.dirty
                 THEN [store[j] EXCEPT !.quantity = s.dirty[j]]
                 ELSE store[j]] \o s.new,
            LAMBDA r : r.quantity # 0)

\* the table after the session's flush: an UPDATE of the quantity of each
\* modified row, an INSERT of each new one
Written(s) ==
  [j \in 1..Len(store) |->
     IF j \in DOMAIN s.dirty THEN [store[j] EXCEPT !.quantity = s.dirty[j]]
                              ELSE store[j]] \o s.new

\* confirm_order: the order's lines passed the form checks, the session opens
OrderStart(items) ==
  /\ dpc = "idle"
  /\ nops < MaxOps
  /\ nops' = nops + 1
  /\ dses' = [NoSession EXCEPT !.kind = "order", !.items = items, !.idx = 1]
  /\ dpc' = "item"
  /\ UNCHANGED << store, lock, table, dlog, scans >>

\* the line is subtracted although the stock is short
OrderItem_unchecked ==
  /\ dpc = "item"
  /\ dses.kind = "order"
  /\ dses.dirty # NoDirty => lock \in {NoProc, Dash}
  /\ LET it == dses.items[dses.idx]
         i == First(RowsByProduct(it.casket))
         have == IF i \in DOMAIN dses.dirty THEN dses.dirty[i]
                                            ELSE store[i].quantity
     IN  IF i # 0
           THEN /\ dses' = [dses EXCEPT
                              !.dirty = Put(@, i, have - it.quantity),
                              !.idx = @ + 1]
                /\ dpc' = IF dses.idx = Len(dses.items) THEN "commit"
                                                        ELSE "item"
                /\ lock' = IF dses.dirty # NoDirty THEN Dash ELSE lock
           ELSE /\ dses' = [dses EXCEPT !.dirty = NoDirty,
                                        !.result = "not_found"]
                /\ dpc' = "done"
                /\ lock' = IF lock = Dash THEN NoProc ELSE lock
  /\ UNCHANGED << store, table, dlog, nops, scans >>

\* the loop with a session.commit() after each subtraction
OrderItem_commitEach ==
  /\ dpc = "item"
  /\ dses.kind = "order"
  /\ lock = NoProc
  /\ LET it == dses.items[dses.idx]
         i == First(RowsByProduct(it.casket))
     IN  IF i # 0 /\ store[i].quantity >= it.quantity
           THEN /\ store' = [store EXCEPT ![i].quantity = @ - it.quantity]
                /\ dses' = [dses EXCEPT !.idx = @ + 1]
                /\ dpc' = IF dses.idx = Len(dses.items) THEN "commit"
                                                        ELSE "item"
           ELSE /\ dses' = [dses EXCEPT
                              !.result = IF i = 0 THEN "not_found"
                                                  ELSE "insufficient"]
                /\ dpc' = "done"
                /\ UNCHANGED store
  /\ UNCHANGED << lock, table, dlog, nops, scans >>

\* one turn of the loop over order_items: the query by product_name (which
\* first flushes the rows modified so far), the stock check and the
\* subtraction in the session; a return inside the loop closes the session,
\* which discards its changes
OrderItem ==
  /\ dpc = "item"
  /\ dses.kind = "order"
  /\ dses.dirty # NoDirty => lock \in {NoProc, Dash}
  /\ LET it == dses.items[dses.idx]
         i == First(RowsByProduct(it.casket))
         have == IF i \in DOMAIN dses.dirty THEN dses.dirty[i]
                                            ELSE store[i].quantity
     IN  IF i # 0 /\ have >= it.quantity
           THEN /\ dses' = [dses EXCEPT
                              !.dirty = Put(@, i, have - it.quantity),
                              !.idx = @ + 1]
                /\ dpc' = IF dses.idx = Len(dses.items) THEN "commit"
                                                        ELSE "item"
                /\ lock' = IF dses.dirty # NoDirty THEN Dash ELSE lock
           ELSE /\ dses' = [dses EXCEPT !.dirty = NoDirty,
                              !.result = IF i = 0 THEN "not_found"
                                                  ELSE "insufficient"]
                /\ dpc' = "done"
                /\ lock' = IF lock = Dash THEN NoProc ELSE lock
  /\ UNCHANGED << store, table, dlog, nops, scans >>

\* manage_inventory, Add Casket: the form checks, the query for a row of
\* that name, and session.add of the new row
AddCasket(name, q) ==
  /\ dpc = "idle"
  /\ nops < MaxOps
  /\ nops' = nops + 1
  /\ IF name = "" \/ q < 0
       THEN /\ dses' = [NoSession EXCEPT !.kind = "add", !.result = "invalid"]
            /\ dpc' = "done"
       ELSE IF RowsByProduct(name) # {}
       THEN /\ dses' = [NoSession EXCEPT !.kind = "add", !.result = "exists"]
            /\ dpc' = "done"
       ELSE /\ dses' = [NoSession EXCEPT
                          !.kind = "add",
                          !.items = <<[casket |-> name, quantity |-> q]>>,
                          !.new = <<[barcode |-> NullBarcode,
                                     product_name |-> name,
                                     quantity |-> q]>>]
            /\ dpc' = "commit"
  /\ UNCHANGED << store, lock, table, dlog, scans >>

\* manage_inventory, table update: the Add Quantity cell of one row changed
\* to v; a negative value is ignored, the row is read and quantity += v
\* is made in the session, the update is published before the commit
AddQuantity(name, v) ==
  /\ dpc = "idle"
  /\ nops < MaxOps
  /\ nops' = nops + 1
  /\ LET i == First(RowsByProduct(name))
     IN  IF v < 0 \/ i = 0
           THEN dses' = [NoSession EXCEPT !.kind = "addqty"]
           ELSE dses' = [NoSession EXCEPT
                          !.kind = "addqty",
                          !.items = <<[casket |-> name, quantity |-> v]>>,
                          !.dirty = Put(NoDirty, i, store[i].quantity + v),
                          !.events = <<[action |-> "update",
                                        product_name |-> name,
                                        quantity |-> store[i].quantity + v]>>]
  /\ dpc' = "commit"
  /\ UNCHANGED << store, lock, table, dlog, scans >>

\* get_inventory_from_db, on page load or search: the table shows the rows
\* as they are now
TableLoad ==
  /\ dpc = "idle"
  /\ nops < MaxOps
  /\ nops' = nops + 1
  /\ table' = [i \in 1..Len(store) |->
                 [product_name |-> store[i].product_name,
                  quantity |-> store[i].quantity]]
  /\ table' # table
  /\ UNCHANGED << store, lock, dpc, dses, dlog, scans >>

\* the quantity the table holds for a product name: its last row of the name
TableQuantity(rows, n) ==
  rows[CHOOSE k \in 1..Len(rows) :
         /\ rows[k].product_name = n
         /\ \A m \in 1..Len(rows) : rows[m].product_name = n => m <= k].quantity

\* update_inventory_table, triggered by the table: the user has set the
\* quantity cell of row i to q; for every row of the table, UPDATE inventory
\* SET quantity = ? WHERE product_name = ?, then one commit
TableEdit(i, q) ==
  /\ dpc = "idle"
  /\ nops < MaxOps
  /\ i \in 1..Len(table)
  /\ lock = NoProc
  /\ nops' = nops + 1
  /\ table' = [table EXCEPT ![i].quantity = q]
  /\ store' = [j \in 1..Len(store) |->
                 IF \E k \in 1..Len(table') :
                      table'[k].product_name = store[j].product_name
                   THEN [store[j] EXCEPT !.quantity =
                           TableQuantity(table', store[j].product_name)]
                   ELSE store[j]]
  /\ UNCHANGED << lock, dpc, dses, dlog, scans >>

\* session.commit() of a dashboard callback: flush and commit in one
\* transaction, then the callback's success message
DCommit ==
  /\ dpc = "commit"
  /\ NeedsWrite(dses) => lock \in {NoProc, Dash}
  /\ store' = Written(dses)
  /\ lock' = IF lock = Dash THEN NoProc ELSE lock
  /\ dlog' = IF dses.kind = "order"
               THEN Append(dlog, [kind |-> dses.kind, items |-> dses.items])
               ELSE dlog
  /\ dses' = [dses EXCEPT
                !.dirty = NoDirty, !.new = <<>>, !.result = "ok",
                !.events = IF dses.kind = "add"
                             THEN Append(@, [action |-> "add",
                                    product_name |-> dses.items[1].casket,
                                    quantity |-> dses.items[1].quantity])
                             ELSE @]
  /\ dpc' = "done"
  /\ UNCHANGED << table, nops, scans >>

\* the write lock is held by a scan for longer than the busy timeout: the
\* flush raises, the except clause rolls back and reports an error
DBusy ==
  /\ dpc \in {"item", "commit"}
  /\ NeedsWrite(dses)
  /\ lock \in Procs
  /\ dses' = [dses EXCEPT !.dirty = NoDirty, !.new = <<>>,
                          !.result = "error"]
  /\ dpc' = "done"
  /\ UNCHANGED << store, lock, table, dlog, nops, scans >>

\* the callback has returned; finally: session.close()
DFinish ==
  /\ dpc = "done"
  /\ dpc' = "idle"
  /\ dses' = NoSession
  /\ UNCHANGED << store, lock, table, dlog, nops, scans >>

---------------------------------------------------------------------------
(* Orders placed while one scanner scans *)

\* the scanner connection of the dashboard specifications
Scanner == "scanner1"

NextOrder ==
  \/ \E b \in {NewportA, UnknownA} : Scan(Scanner, JStr(b))
  \/ Begin(Scanner)
  \/ LookupBarcode(Scanner)
  \/ LookupProduct(Scanner)
  \/ Commit(Scanner)
  \/ Publish(Scanner, "ok")
  \/ Finish(Scanner)
  \/ \E o \in SingleOrders : OrderStart(o)
  \/ OrderItem
  \/ DCommit
  \/ DBusy
  \/ DFinish

SpecOrder == Init /\ [][NextOrder]_vars

\* order_items of an order of two lines
PairOrders == { <<a, b>> : a, b \in OrderItems }

\* orders of two lines placed while the scanner scans one barcode
NextPair ==
  \/ Scan(Scanner, JStr(NewportA))
  \/ Begin(Scanner)
  \/ LookupBarcode(Scanner)
  \/ LookupProduct(Scanner)
  \/ Commit(Scanner)
  \/ Publish(Scanner, "ok")
  \/ Finish(Scanner)
  \/ \E o \in PairOrders : OrderStart(o)
  \/ OrderItem
  \/ DCommit
  \/ DBusy
  \/ DFinish

SpecPair == Init /\ [][NextPair]_vars

\* barcodes of two products, two of them of one product
RotatingInputs == {NewportA, NewportB, UnknownA}

\* orders placed while the scanner scans barcodes that replace each other
NextRotate ==
  \/ \E b \in RotatingInputs : Scan(Scanner, JStr(b))
  \/ Begin(Scanner)
  \/ LookupBarcode(Scanner)
  \/ LookupProduct(Scanner)
  \/ Commit(Scanner)
  \/ Publish(Scanner, "ok")
  \/ Finish(Scanner)
  \/ \E o \in SingleOrders : OrderStart(o)
  \/ OrderItem
  \/ DCommit
  \/ DBusy
  \/ DFinish

SpecRotate == Init /\ [][NextRotate]_vars

---------------------------------------------------------------------------
(* The whole dashboard beside one scanner *)

\* names typed into the Add Casket form
AddNames == {"", "Newport Silver"}

\* quantities typed into the dashboard's forms and cells
FormQuantities == {-1, 0, 2}

NextDash ==
  \/ Scan(Scanner, JStr(NewportA))
  \/ Begin(Scanner)
  \/ LookupBarcode(Scanner)
  \/ LookupProduct(Scanner)
  \/ Commit(Scanner)
  \/ Publish(Scanner, "ok")
  \/ Finish(Scanner)
  \/ \E o \in SingleOrders : OrderStart(o)
  \/ OrderItem
  \/ \E n \in AddNames, q \in FormQuantities : AddCasket(n, q)
  \/ \E n \in Products, v \in FormQuantities : AddQuantity(n, v)
  \/ TableLoad
  \/ \E i \in 1..(MaxScans + MaxOps), q \in FormQuantities : TableEdit(i, q)
  \/ DCommit
  \/ DBusy
  \/ DFinish

SpecDash == Init /\ [][NextDash]_vars

\* the inventory table of the dashboard, loaded and edited while the
\* scanner scans barcodes of two products
NextTable ==
  \/ \E b \in {NewportA, UnknownA} : Scan(Scanner, JStr(b))
  \/ Begin(Scanner)
  \/ LookupBarcode(Scanner)
  \/ LookupProduct(Scanner)
  \/ Commit(Scanner)
  \/ Publish(Scanner, "ok")
  \/ Finish(Scanner)
  \/ TableLoad
  \/ \E i \in 1..(MaxScans + MaxOps), q \in FormQuantities : TableEdit(i, q)

SpecTable == Init /\ [][NextTable]_vars

---------------------------------------------------------------------------
(* Properties of the resolver (SpecResolve) *)

\* index of the first hyphen of b
FirstHyphen(b) ==
  CHOOSE k \in 1..Len(b) : b[k] = "-" /\ \A j \in 1..(k - 1) : b[j] # "-"

\* C6: for every trimmed barcode the derived prefix is the substring before
\* the first hyphen if the length is >= 14 and it contains a hyphen;
\* otherwise its first 11 characters if the length is >= 11; otherwise its
\* first 6 characters, the whole string if it is shorter than 6.
C6_PrefixRule ==
  rs.phase = "out" =>
    LET b == strip(rs.raw)
        n == Len(b)
    IN  rs.prefix =
          IF n >= 14 /\ (\E k \in 1..n : b[k] = "-")
            THEN SubSeq(b, 1, FirstHyphen(b) - 1)
            ELSE IF n >= 11 THEN SubSeq(b, 1, 11)
            ELSE IF n >= 6 THEN SubSeq(b, 1, 6)
            ELSE b

\* a 14-character barcode with a hyphen resolved to the part before it
C6_Witness ==
  /\ rs.phase = "out"
  /\ rs.raw = NewportA
  /\ Len(rs.raw) = 14
  /\ rs.prefix = NewportB

\* C7: resolution is total: a prefix that is a key of the table resolves to
\* the table's product name, every other prefix (the empty one included)
\* resolves to "Unknown", and no lookup raises.
C7_ResolutionTotal ==
  rs.phase = "out" =>
    /\ rs.name # "KeyError"
    /\ (\E e \in barcode_prefix_mapping : e[1] = rs.prefix)
         => << rs.prefix, rs.name >> \in barcode_prefix_mapping
    /\ (\A e \in barcode_prefix_mapping : e[1] # rs.prefix)
         => rs.name = "Unknown"

\* a whitespace-only input: the empty prefix resolved to "Unknown"
C7_Witness ==
  /\ rs.phase = "out"
  /\ rs.raw = << " ", "\t" >>
  /\ rs.prefix = << >>
  /\ rs.name = "Unknown"

---------------------------------------------------------------------------
(* Properties of add_or_update_inventory (Spec) *)

\* the step in which p's session.commit() succeeds
Committing(p) == pc[p] = "commit" /\ pc'[p] = "publish"

\* the step in which p's call returns its action
Returning(p) == pc[p] = "publish" /\ pc'[p] = "returned"

\* the product name a stripped barcode resolves to
ResolvedName(b) == ProductName(BarcodePrefix(b))

\* every row but row i is the same after the step
OthersUnchanged(i) ==
  \A j \in 1..Len(store) : j # i => store'[j] = store[j]

\* C2: a scan of a barcode that is not in the store but whose resolved
\* product name has a row returns 'updated', overwrites that row's barcode
\* with the scanned one, increments its quantity by exactly 1 and creates
\* no row.
C2_ProductFallback ==
  [][\A p \in Procs :
       /\ ( /\ Committing(p)
            /\ RowsByBarcode(scanned_barcode[p]) = {}
            /\ RowsByProduct(ResolvedName(scanned_barcode[p])) # {} )
          => LET i == First(RowsByProduct(ResolvedName(scanned_barcode[p])))
             IN  /\ action[p] = "updated"
                 /\ Len(store') = Len(store)
                 /\ store'[i].barcode = scanned_barcode[p]
                 /\ store'[i].quantity = store[i].quantity + 1
                 /\ store'[i].product_name = store[i].product_name
                 /\ OthersUnchanged(i)
       /\ Returning(p) => outcome'[p] = action[p]
    ]_vars

\* a committed scan that matched by product name and took over the row of
\* another barcode
C2_Witness ==
  \E p \in Procs :
    /\ pc[p] = "returned"
    /\ outcome[p] = "updated"
    /\ "SELECT by product_name" \in ops[p]
    /\ scanned_barcode[p] = NewportB
    /\ history[1].barcode = NewportA
    /\ store[item[p].id].barcode = NewportB
    /\ Len(store) = 1

\* C4: when a row with exactly the scanned barcode exists, the scan
\* increments that row's quantity by exactly 1, leaves its barcode and
\* product_name unchanged, returns 'updated', and makes no lookup by
\* product name.
C4_ExactMatch ==
  [][\A p \in Procs :
       /\ ( /\ Committing(p)
            /\ RowsByBarcode(scanned_barcode[p]) # {} )
          => LET i == First(RowsByBarcode(scanned_barcode[p]))
             IN  /\ action[p] = "updated"
                 /\ store' = [store EXCEPT ![i].quantity = @ + 1]
                 /\ "SELECT by product_name" \notin ops[p]
       /\ Returning(p) => outcome'[p] = action[p]
    ]_vars

\* a committed scan that matched its barcode while another row exists
C4_Witness ==
  \E p \in Procs :
    /\ pc[p] = "returned"
    /\ outcome[p] = "updated"
    /\ ops[p] = {"BEGIN IMMEDIATE", "SELECT by barcode", "COMMIT"}
    /\ Len(store) = 2
    /\ store[item[p].id].barcode = scanned_barcode[p]
    /\ store[item[p].id].quantity = 2

\* C5: a scan of 'Inventory Mode' or 'Exit and Save' returns 'skipped' from
\* any store state, with no storage statement, no change of the store and
\* nothing published.
C5_CommandsSkipped ==
  [][\A p \in Procs :
       /\ ( /\ pc[p] = "idle"
            /\ pc'[p] # "idle"
            /\ arg'[p] \in {CmdInventoryMode, CmdExitAndSave} )
          => /\ pc'[p] = "returned"
             /\ outcome'[p] = "skipped"
             /\ ops'[p] = {}
             /\ published'[p] = << >>
             /\ store' = store
             /\ lock' = lock
             /\ history' = history
       /\ ( /\ pc[p] = "returned"
            /\ outcome[p] = "skipped"
            /\ pc'[p] # "returned" )
          => /\ pc'[p] = "idle"
             /\ ops[p] = {}
             /\ published[p] = << >>
             /\ store' = store
             /\ lock' = lock
             /\ history' = history
    ]_vars

\* 'Exit and Save' skipped while the store has rows and another scan holds
\* the write lock
C5_Witness ==
  \E p \in Procs :
    /\ pc[p] = "returned"
    /\ outcome[p] = "skipped"
    /\ arg[p] = CmdExitAndSave
    /\ store # << >>
    /\ lock \in Procs

\* C8: a scan makes at most 5 attempts, starts a further attempt only after
\* a 'database is locked' error, and raises the contention failure only
\* when all 5 attempts were contended.
C8_RetryBudget ==
  [][\A p \in Procs :
       /\ attempt'[p] \in 0..4
       /\ attempt'[p] = contended'[p]
       /\ attempt'[p] > attempt[p] =>
            /\ attempt'[p] = attempt[p] + 1
            /\ pc[p] \in StoragePcs
            /\ pc'[p] = "begin"
            /\ fault'[p] = "locked"
       /\ (pc[p] # "raised" /\ pc'[p] = "raised") =>
            \/ /\ outcome'[p] = "lock_exhausted"
               /\ fault'[p] = "locked"
               /\ attempt[p] = 4
               /\ contended[p] = 4
            \/ /\ outcome'[p] \in {"dberr", "exc"}
               /\ fault'[p] = outcome'[p]
    ]_vars

\* a scan that raised because its fifth attempt was contended too, while
\* the store has a row committed by the other scanner
C8_Witness ==
  \E p \in Procs :
    /\ pc[p] = "raised"
    /\ outcome[p] = "lock_exhausted"
    /\ fault[p] = "locked"
    /\ store # << >>

\* C9: a storage error other than contention is surfaced at once: the
\* transaction in flight is rolled back and the scan makes no further
\* attempt.
C9_FailFast ==
  [][\A p \in Procs :
       /\ ( /\ pc[p] \in StoragePcs
            /\ fault'[p] \in {"dberr", "exc"} )
          => /\ pc'[p] = "raised"
             /\ outcome'[p] = fault'[p]
             /\ lock' # p
             /\ item'[p] = NoItem
             /\ store' = store
       /\ pc[p] = "raised" => pc'[p] \in {"raised", "idle"}
    ]_vars

\* a scan that raised a database error inside its transaction, after the
\* lookup by barcode, and no longer holds the lock
C9_Witness ==
  \E p \in Procs :
    /\ pc[p] = "raised"
    /\ outcome[p] = "dberr"
    /\ fault[p] = "dberr"
    /\ "SELECT by barcode" \in ops[p]
    /\ lock # p

\* C10: a call that raises leaves the store as it was: the store changes
\* only in the commit step of a scan, by exactly that scan's row, and a
\* call that has committed never raises; a failed attempt leaves nothing
\* behind.
C10_NoPartialWrites ==
  [][/\ store' # store =>
          \E p \in Procs :
            /\ Committing(p)
            /\ lock = p
            /\ store' = Flushed(item[p])
     /\ \A p \in Procs :
          /\ pc'[p] = "raised" =>
               /\ "COMMIT" \notin ops'[p]
               /\ lock' # p
               /\ item'[p] = NoItem
          /\ (pc[p] # "raised" /\ pc'[p] = "raised") => store' = store
    ]_vars

\* the first scan raised at its commit, with the insert pending: the store
\* is still empty
C10_Witness ==
  \E p \in Procs :
    /\ pc[p] = "raised"
    /\ "SELECT by product_name" \in ops[p]
    /\ nscans = 1
    /\ store = << >>

\* no committed scan had barcode b
NeverSeen(b) == \A k \in 1..Len(history) : history[k].barcode # b

\* C3 as stated: the first scan of a never-seen barcode returns 'added' and
\* leaves a row with quantity 1; scanned again at once, it returns
\* 'updated' and leaves that row with quantity 2.
C3_Original ==
  [][\A p \in Procs :
       /\ ( /\ Committing(p)
            /\ NeverSeen(scanned_barcode[p]) )
          => /\ action[p] = "added"
             /\ store' = Append(store,
                  [barcode |-> scanned_barcode[p],
                   product_name |-> ResolvedName(scanned_barcode[p]),
                   quantity |-> 1])
       /\ ( /\ Committing(p)
            /\ history # << >>
            /\ history[Len(history)] =
                 [barcode |-> scanned_barcode[p], action |-> "added",
                  quantity |-> 1] )
          => /\ action[p] = "updated"
             /\ \E i \in 1..Len(store) :
                  /\ store[i].barcode = scanned_barcode[p]
                  /\ store' = [store EXCEPT ![i].quantity = 2]
       /\ Returning(p) => outcome'[p] = action[p]
    ]_vars

\* C3, amended: the first scan of a never-seen barcode whose resolved
\* product name has no row returns 'added' and leaves a row with quantity
\* 1; scanned again at once, it returns 'updated' and leaves that row with
\* quantity 2.
C3_TwiceInARow ==
  [][\A p \in Procs :
       /\ ( /\ Committing(p)
            /\ NeverSeen(scanned_barcode[p])
            /\ RowsByProduct(ResolvedName(scanned_barcode[p])) = {} )
          => /\ action[p] = "added"
             /\ store' = Append(store,
                  [barcode |-> scanned_barcode[p],
                   product_name |-> ResolvedName(scanned_barcode[p]),
                   quantity |-> 1])
       /\ ( /\ Committing(p)
            /\ history # << >>
            /\ history[Len(history)] =
                 [barcode |-> scanned_barcode[p], action |-> "added",
                  quantity |-> 1] )
          => /\ action[p] = "updated"
             /\ \E i \in 1..Len(store) :
                  /\ store[i].barcode = scanned_barcode[p]
                  /\ store' = [store EXCEPT ![i].quantity = 2]
       /\ Returning(p) => outcome'[p] = action[p]
    ]_vars

\* the same new barcode committed twice in a row: added with 1, then
\* updated with 2
C3_Witness ==
  \E p \in Procs :
    /\ pc[p] = "returned"
    /\ outcome[p] = "updated"
    /\ Len(history) = 2
    /\ history[1] = [barcode |-> UnknownA, action |-> "added", quantity |-> 1]
    /\ history[2] =
         [barcode |-> UnknownA, action |-> "updated", quantity |-> 2]
    /\ store = << [barcode |-> UnknownA, product_name |-> "Unknown",
                   quantity |-> 2] >>

---------------------------------------------------------------------------
(* Properties of concurrent scans of one new barcode (SpecSame) *)

\* no request is in progress
Quiescent == \A p \in Procs : pc[p] = "idle"

\* scans that have committed: those that returned and those about to
Committed == nreturned + Cardinality({ p \in Procs : pc[p] = "publish" })

\* C1 as stated: after N concurrent scans of the same new barcode, with
\* contention injected on some attempts, the store has exactly one row for
\* the barcode and its quantity is N.
C1_Original ==
  (Quiescent /\ nscans >= 2) =>
    /\ Cardinality(RowsByBarcode(NewportA)) = 1
    /\ store[First(RowsByBarcode(NewportA))].quantity = nscans

\* C1, amended: the store never has more than one row for the barcode, and
\* the row's quantity is the number of scans that committed; when all
\* scans are over it is the number of scans that returned, which is N when
\* no scan had all of its 5 attempts contended.
C1_NoLostIncrement ==
  /\ Len(store) <= 1
  /\ Committed = 0 => store = << >>
  /\ Committed > 0 =>
       /\ Cardinality(RowsByBarcode(NewportA)) = 1
       /\ store[First(RowsByBarcode(NewportA))].quantity = Committed
  /\ nreturned <= nscans
  /\ (Quiescent /\ nreturned = nscans /\ nscans > 0) =>
       store[First(RowsByBarcode(NewportA))].quantity = nscans

\* every scan of the run went through, one of them after contention while
\* the other was in flight
C1_Witness ==
  \E p, q \in Procs :
    /\ p # q
    /\ pc[p] = "publish"
    /\ contended[p] >= 1
    /\ pc[q] = "returned"
    /\ nscans = MaxScans
    /\ Cardinality(RowsByBarcode(NewportA)) = 1
    /\ store[1].quantity = nscans

---------------------------------------------------------------------------
(* Notifications and responses of /scan (Spec) *)

\* C11: a scan that has returned 'added' or 'updated' has published exactly
\* one notification, of its own action and after its commit; at every other
\* point (an attempt in progress or rolled back, a scan that raised, was
\* skipped or was rejected) the scan has published none.
C11_OneNotification ==
  \A p \in Procs :
    IF pc[p] = "returned" /\ outcome[p] \in {"added", "updated"}
      THEN /\ Len(published[p]) = 1
           /\ published[p][1].action = outcome[p]
           /\ "COMMIT" \in ops[p]
      ELSE published[p] = <<>>

\* one scan has returned 'added' with its notification while another has
\* raised without one
C11_Witness ==
  \E p, q \in Procs :
    /\ pc[p] = "returned" /\ outcome[p] = "added"
    /\ Len(published[p]) = 1
    /\ pc[q] = "raised" /\ published[q] = <<>>

\* C12: whatever the result of the publish step, the scan returns the
\* action of its committed attempt, the table keeps the committed row, and
\* a scan whose publish failed is answered with 200.
C12_PublishBestEffort ==
  [][ \A p \in Procs :
        /\ (pc[p] = "publish" /\ pc'[p] # "publish") =>
              /\ pc'[p] = "returned"
              /\ action[p] \in {"added", "updated"}
              /\ outcome'[p] = action[p]
              /\ store' = store
        /\ (/\ pc[p] = "returned" /\ pc'[p] # "returned"
            /\ published[p] # <<>>
            /\ published[p][1].rc = "err") =>
              /\ response'[p] = 200
              /\ store' = store
    ]_vars

\* a scan has returned 'updated' although its publish failed, and the
\* incremented row is in the table
C12_Witness ==
  \E p \in Procs :
    /\ pc[p] = "returned" /\ outcome[p] = "updated"
    /\ published[p] # <<>>
    /\ published[p][1].rc = "err"
    /\ \E i \in 1..Len(store) : store[i].quantity >= 2

\* a barcode field that is missing, empty or not a string
BadBarcode(v) == v.type # "string" \/ v.str = <<>>

C15_StatusCodes ==
  [][ \A p \in Procs :
        (/\ pc[p] # "idle" /\ pc'[p] = "idle"
         /\ request[p].type = "string" /\ request[p].str # <<>>) =>
          /\ response'[p] \in {200, 500}
          /\ response'[p] = 200 <=>
                (pc[p] = "returned"
                   /\ outcome[p] \in {"added", "updated", "skipped"})
          /\ response'[p] = 500 <=>
                (pc[p] = "raised"
                   /\ outcome[p] \in {"lock_exhausted", "dberr", "exc"})
    ]_vars

\* one connection was answered 200 and the other 500
C15_Witness ==
  \E p, q \in Procs :
    /\ pc[p] = "idle" /\ response[p] = 200
    /\ pc[q] = "idle" /\ response[q] = 500

---------------------------------------------------------------------------
(* Whitespace-only barcodes (SpecEdge) *)

\* C14: a request whose barcode is empty after strip is rejected before
\* add_or_update_inventory runs, and no committed scan has the empty
\* barcode.
C14_BlankRejected ==
  /\ \A p \in Procs :
        (/\ pc[p] # "idle" /\ request[p].type = "string"
         /\ strip(request[p].str) = <<>>) => pc[p] = "rejected"
  /\ \A k \in 1..Len(history) : history[k].barcode # <<>>

\* C22: a raw scan that equals an internal command after trimming is
\* skipped: the call returns 'skipped' without a statement on the store and
\* without an event, and no committed scan has an internal command as its
\* barcode.
C22_PaddedCommandSkipped ==
  /\ \A p \in Procs :
        (/\ pc[p] \notin {"idle", "rejected"}
         /\ request[p].type = "string"
         /\ strip(request[p].str) \in InternalCommands)
          => /\ pc[p] = "returned" /\ outcome[p] = "skipped"
             /\ ops[p] = {} /\ published[p] = <<>>
  /\ \A k \in 1..Len(history) : history[k].barcode \notin InternalCommands

---------------------------------------------------------------------------
(* Order placement (SpecOrder) *)

\* C16: an order line for more than the stored quantity of its product
\* ends the order as insufficient stock with no row changed, then or
\* later; a line for at most the stored quantity is accepted, and the
\* order's commit stores that quantity less the ordered amount in the
\* product's row and changes no other row.
C16_OrderCheck ==
  [][ /\ (dpc = "item" /\ dpc' # "item") =>
           LET it == dses.items[dses.idx]
               i == First(RowsByProduct(it.casket))
           IN  /\ store' = store
               /\ (i # 0 /\ it.quantity > store[i].quantity) =>
                     /\ dpc' = "done"
                     /\ dses'.result = "insufficient"
                     /\ ~NeedsWrite(dses')
               /\ (i # 0 /\ it.quantity <= store[i].quantity) =>
                     /\ dpc' = "commit"
                     /\ DOMAIN dses'.dirty = {i}
                     /\ dses'.dirty[i] = store[i].quantity - it.quantity
      /\ (dpc = "commit" /\ dpc' = "done" /\ dses'.result = "ok") =>
           /\ Len(store') = Len(store)
           /\ \A i \in 1..Len(store) :
                 store'[i] =
                   IF i \in DOMAIN dses.dirty
                     THEN [store[i] EXCEPT !.quantity = dses.dirty[i]]
                     ELSE store[i]
      /\ (dpc = "done" /\ dpc' # "done") => store' = store
    ]_vars

\* after an accepted order that emptied a row, a second order was
\* rejected as insufficient stock
C16_Witness ==
  /\ dpc = "done"
  /\ dses.result = "insufficient"
  /\ dlog # <<>>
  /\ \E i \in 1..Len(store) :
        /\ store[i].product_name = dses.items[1].casket
        /\ store[i].quantity = 0

\* units of product n in the accepted orders of a log
RECURSIVE OrderedUnits(_, _)
OrderedUnits(log, n) ==
  IF log = <<>> THEN 0
  ELSE LET e == log[Len(log)]
       IN  OrderedUnits(SubSeq(log, 1, Len(log) - 1), n)
             + (IF e.kind = "order" /\ e.items[1].casket = n
                  THEN e.items[1].quantity ELSE 0)

\* committed scans that resolve to product n
ScannedUnits(n) ==
  Cardinality({ k \in 1..Len(history) : ResolvedName(history[k].barcode) = n })

\* C17: starting from the empty table, whatever the interleaving of
\* accepted orders and successful scans, the quantity of a product's row
\* is the number of committed scans of the product less the units of the
\* accepted orders for it.
C17_OrderAtomic ==
  \A i \in 1..Len(store) :
    store[i].quantity = ScannedUnits(store[i].product_name)
                          - OrderedUnits(dlog, store[i].product_name)

---------------------------------------------------------------------------
(* Invariants of the inventory table under the dashboard (SpecDash) *)

\* C18: every row has quantity >= 0, whatever scans, orders, manual adds
\* and dashboard quantity edits were made and however they interleaved.
C18_NonNegative ==
  \A i \in 1..Len(store) : store[i].quantity >= 0

\* C20: no two rows have the same product_name, whatever scans and manual
\* adds were made and however they interleaved.
C20_UniqueProductName ==
  \A i, j \in 1..Len(store) :
    store[i].product_name = store[j].product_name => i = j

---------------------------------------------------------------------------
(* Uniqueness of barcodes under concurrent scans (Spec) *)

\* C19: no two rows have the same non-null barcode, and no scan's commit
\* ever attempts one: neither an insert nor the product-name fallback's
\* barcode overwrite is refused by the table's unique constraint.
C19_UniqueBarcode ==
  /\ \A i, j \in 1..Len(store) :
        (store[i].barcode = store[j].barcode
           /\ store[i].barcode # NullBarcode) => i = j
  /\ \A p \in Procs : fault[p] # "integrity" /\ outcome[p] # "integrity"

\* two rows with barcodes, after the fallback overwrote the barcode of the
\* first scan with that of a later scan of the same product
C19_Witness ==
  /\ \E i, j \in 1..Len(store) :
        /\ i # j
        /\ store[i].barcode = NewportB
        /\ store[j].barcode \notin {NullBarcode, NewportB}
  /\ \E k \in 1..Len(history) :
        /\ history[k].barcode = NewportA
        /\ \E m \in (k + 1)..Len(history) :
              history[m].barcode = NewportB /\ history[m].action = "updated"

---------------------------------------------------------------------------
(* The write lock of a scan attempt (Spec) *)

\* p is between its BEGIN IMMEDIATE and its commit or rollback
InSection(p) == pc[p] \in {"by_barcode", "by_name", "commit"}

\* C23: a scan attempt holds the write lock from its BEGIN IMMEDIATE, before
\* its first lookup, until its commit or rollback and at no other time; so
\* at most one attempt is between its lookups and its commit, and while an
\* attempt is there the table changes only by that attempt's own commit.
C23_WriteLockHeld ==
  [][ /\ \A p \in Procs : InSection(p) <=> lock = p
      /\ \A p \in Procs : (InSection(p))' <=> lock' = p
      /\ \A p, q \in Procs : (InSection(p) /\ InSection(q)) => p = q
      /\ \A p \in Procs :
            (InSection(p) /\ store' # store) => Committing(p) ]_vars

\* a scan is about to commit what it read while the other scan, turned
\* away by the lock, waits to begin again
C23_Witness ==
  \E p, q \in Procs :
    /\ pc[p] = "commit" /\ lock = p /\ item[p] # NoItem
    /\ pc[q] = "begin" /\ contended[q] >= 1

\* the step in which p's attempt is rolled back and the loop continues
Retrying(p) ==
  pc[p] \in StoragePcs /\ pc'[p] = "begin" /\ attempt'[p] = attempt[p] + 1

\* C24: an attempt that follows a rolled-back one starts with nothing read
\* and runs its lookups again, by barcode and then by product name; every
\* commit writes the action and the quantity that these lookups give on
\* the table as it is at that commit: 'updated' with quantity + 1 for a
\* row found by barcode or else by product name, 'added' with 1 if there
\* is neither.
C24_RetryRereads ==
  [][ \A p \in Procs :
        /\ Retrying(p) =>
              /\ item'[p] = NoItem /\ action'[p] = "none" /\ ops'[p] = {}
              /\ store' = store
        /\ Committing(p) =>
              LET b == scanned_barcode[p]
                  i == First(RowsByBarcode(b))
                  j == First(RowsByProduct(ResolvedName(b)))
              IN  /\ {"BEGIN IMMEDIATE", "SELECT by barcode"} \subseteq ops[p]
                  /\ i = 0 => "SELECT by product_name" \in ops[p]
                  /\ IF i # 0
                       THEN /\ action[p] = "updated"
                            /\ store' = [store EXCEPT ![i].quantity = @ + 1]
                       ELSE IF j # 0
                         THEN /\ action[p] = "updated"
                              /\ store' = [store EXCEPT
                                             ![j].quantity = @ + 1,
                                             ![j].barcode = b]
                         ELSE /\ action[p] = "added"
                              /\ store' = Append(store,
                                   [barcode |-> b,
                                    product_name |-> ResolvedName(b),
                                    quantity |-> 1]) ]_vars

\* a scan whose earlier attempt was turned away commits 'updated' with
\* quantity 2 on the row that the other scan of the same barcode added
C24_Witness ==
  \E p \in Procs :
    /\ pc[p] = "publish" /\ contended[p] >= 1
    /\ action[p] = "updated" /\ item[p].quantity = 2
    /\ Len(history) = 2
    /\ history[1] = [barcode |-> scanned_barcode[p], action |-> "added",
                     quantity |-> 1]
    /\ history[2] = [barcode |-> scanned_barcode[p], action |-> "updated",
                     quantity |-> 2]

---------------------------------------------------------------------------
(* Rotating barcodes (Spec) *)

\* the committed scans that resolve to product n, as positions of the history
ScansOf(n) == { k \in 1..Len(history) : ResolvedName(history[k].barcode) = n }

\* the barcode of the latest committed scan that resolves to product n
LastScanned(n) ==
  history[CHOOSE k \in ScansOf(n) : \A m \in ScansOf(n) : m <= k].barcode

\* C25: after any committed scans of barcodes that resolve to one product
\* name, the table has exactly one row of that product, its quantity is the
\* number of those scans and its barcode is the one scanned last, also
\* when that is an earlier barcode scanned again after it was overwritten.
C25_RotatingBarcodes ==
  \A n \in { ResolvedName(history[k].barcode) : k \in 1..Len(history) } :
    /\ Cardinality(RowsByProduct(n)) = 1
    /\ \A i \in RowsByProduct(n) :
          /\ store[i].quantity = Cardinality(ScansOf(n))
          /\ store[i].barcode = LastScanned(n)

\* a barcode, then another of the same product, then the first again: one
\* row of quantity 3 under the first barcode
C25_Witness ==
  /\ Len(history) = 3
  /\ history[1].barcode = NewportA
  /\ history[2].barcode = NewportB
  /\ history[3].barcode = NewportA
  /\ store = << [barcode |-> NewportA, product_name |-> "Newport Silver",
                 quantity |-> 3] >>

---------------------------------------------------------------------------
(* The event of a successful scan (SpecEdge) *)

\* C26: the commit of a scan stores in the affected row the quantity of the
\* scan's object, 1 for 'added' and the row's quantity + 1 for 'updated';
\* the object is kept as it is until the event is published; the event
\* carries the scan's action, the stripped argument, the product name it
\* resolves to and that quantity.
C26_EventPayload ==
  [][ \A p \in Procs :
        /\ Committing(p) =>
              LET i == item'[p].id
              IN  /\ i \in 1..Len(store')
                  /\ store'[i].quantity = item'[p].quantity
                  /\ item'[p].quantity = item[p].quantity
                  /\ action[p] = "added" =>
                        i = Len(store) + 1 /\ item[p].quantity = 1
                  /\ action[p] = "updated" =>
                        /\ i \in 1..Len(store)
                        /\ item[p].quantity = store[i].quantity + 1
        /\ (pc[p] = "publish" /\ pc'[p] = "publish") =>
              item'[p] = item[p] /\ action'[p] = action[p]
        /\ Returning(p) =>
              /\ Len(published'[p]) = Len(published[p]) + 1
              /\ LET e == published'[p][Len(published'[p])]
                 IN  /\ e.action = action[p]
                     /\ e.action \in {"added", "updated"}
                     /\ e.barcode = strip(arg[p])
                     /\ e.product_name = ResolvedName(strip(arg[p]))
                     /\ e.quantity = item[p].quantity ]_vars

\* a scan sent with surrounding whitespace added a row; before its event
\* was published another scan took the row to quantity 2; the event has
\* the stripped barcode and the quantity 1 of the scan's own commit
C26_Witness ==
  \E p \in Procs :
    /\ pc[p] = "returned"
    /\ arg[p] # strip(arg[p])
    /\ published[p] = << [action |-> "added", barcode |-> strip(arg[p]),
                          product_name |-> "Unknown", quantity |-> 1,
                          rc |-> "ok"] >>
    /\ Len(store) = 1 /\ store[1].quantity = 2

---------------------------------------------------------------------------
(* Orders of several lines (SpecPair) *)

\* a step of the order in progress
OrderStep == dses.kind = "order" /\ << dpc, dses >>' # << dpc, dses >>

\* the order ended without its commit: a line was refused, or the flush or
\* the commit raised
Refused(s) == s.result \in {"insufficient", "not_found", "error"}

\* C27: an order changes the table in one step only, the commit that
\* follows the acceptance of every line, and there only rows of the
\* products it names; when a line is refused, or the flush or the commit
\* fails, the subtractions made for earlier lines are dropped with the
\* session and the transaction ends, so no quantity is changed by that
\* order then or later.
C27_AllOrNothing ==
  [][ OrderStep =>
        /\ store' # store =>
              /\ dpc = "commit" /\ dses'.result = "ok"
              /\ dses.idx = Len(dses.items) + 1
              /\ Len(store') = Len(store)
              /\ \A i \in 1..Len(store) :
                    store'[i] # store[i] =>
                      \E k \in 1..Len(dses.items) :
                        dses.items[k].casket = store[i].product_name
        /\ Refused(dses') =>
              /\ store' = store
              /\ ~NeedsWrite(dses')
              /\ lock' # Dash
        /\ Refused(dses) => store' = store ]_vars

\* the first line of an order was accepted and subtracted in the session,
\* the second was refused; the row still has every scanned unit
C27_Witness ==
  /\ dpc = "done"
  /\ dses.result = "insufficient"
  /\ dses.idx = 2
  /\ dlog = <<>>
  /\ Len(store) = 1
  /\ store[1].quantity = Len(history)
  /\ store[1].quantity >= dses.items[1].quantity

---------------------------------------------------------------------------
(* Barcode and product name of a row (SpecRotate) *)

\* C28: in every state reached by scans and orders from the empty table,
\* the product_name of every row with a barcode is the name that the
\* barcode resolves to, also after the product-name branch has replaced
\* the row's barcode.
C28_BarcodeResolvesToName ==
  \A i \in 1..Len(store) :
    store[i].barcode # NullBarcode =>
      store[i].product_name = ResolvedName(store[i].barcode)

\* a row first scanned under one barcode has the barcode of a later scan
\* of the same product, beside a row of another product, and an order was
\* taken from it
C28_Witness ==
  /\ Len(history) >= 2
  /\ history[1].barcode = NewportA
  /\ dlog # <<>>
  /\ \E i, j \in 1..Len(store) :
        /\ store[i].barcode = NewportB
        /\ store[i].product_name = "Newport Silver"
        /\ store[j].product_name = "Unknown"

---------------------------------------------------------------------------
(* What a successful scan changes (Spec) *)

\* the sum of the quantities of a table
RECURSIVE TotalQuantity(_)
TotalQuantity(t) ==
  IF t = <<>> THEN 0
  ELSE t[Len(t)].quantity + TotalQuantity(SubSeq(t, 1, Len(t) - 1))

\* C29: a scan that is not skipped changes the table in its commit only,
\* and there exactly one row, the matched row or one inserted at the end:
\* every other row keeps its barcode, product_name and quantity, the number
\* of rows grows by at most 1 and the sum of the quantities by exactly 1.
C29_OneRowChanged ==
  [][ \A p \in Procs :
        /\ Committing(p) =>
              /\ Len(store') \in {Len(store), Len(store) + 1}
              /\ TotalQuantity(store') = TotalQuantity(store) + 1
              /\ \E i \in 1..Len(store') :
                    /\ OthersUnchanged(i)
                    /\ i <= Len(store) =>
                          Len(store') = Len(store) /\ store'[i] # store[i]
        /\ (pc'[p] # pc[p] /\ ~Committing(p)) => store' = store ]_vars

\* a scan has committed an update of the first of two rows; the second row
\* is as its own scan left it
C29_Witness ==
  \E p \in Procs :
    /\ pc[p] = "publish" /\ action[p] = "updated" /\ item[p].id = 1
    /\ Len(store) = 2
    /\ store[1].quantity = 2
    /\ store[2].quantity = 1
    /\ history[Len(history)].barcode = store[1].barcode

---------------------------------------------------------------------------
(* Rows are kept (SpecDash) *)

\* C21: inventory rows are never deleted: over scans, orders, manual adds
\* and quantity edits every row stays in the table under its id, with its
\* product_name, also when its quantity reaches 0; the set of ids only
\* grows.
C21_NeverDeleted ==
  [][ /\ Len(store') >= Len(store)
      /\ \A i \in 1..Len(store) :
            store'[i].product_name = store[i].product_name ]_vars

\* an order took the last unit of a scanned row, which is still in the
\* table, and the dashboard went on to another operation
C21_Witness ==
  /\ dpc = "idle"
  /\ nops = MaxOps
  /\ dlog # <<>>
  /\ \E i \in 1..Len(store) :
        store[i].quantity = 0 /\ store[i].barcode # NullBarcode

---------------------------------------------------------------------------
(* Quantity edits in the dashboard's table (SpecTable) *)

\* the step of a callback of the inventory table that writes to the store
TableWrite ==
  /\ dpc = "idle" /\ dpc' = "idle"
  /\ nops' = nops + 1
  /\ store' # store

\* C30: a quantity edit in the dashboard's table changes the stored
\* quantity of the edited row only: there is a row of the table, the one
\* whose cell differs if any does, such that every stored row of another
\* product keeps its quantity, in particular one that a scan committed
\* after the table was loaded.
C30_EditOnlyEditedRow ==
  [][ TableWrite =>
        \E i \in 1..Len(table') :
          /\ table' = [table EXCEPT ![i].quantity = table'[i].quantity]
          /\ \A j \in 1..Len(store) :
                store[j].product_name # table'[i].product_name
                  => store'[j] = store[j] ]_vars

TypeOK ==
  /\ lock \in Procs \cup {NoProc, Dash}
  /\ \A p \in Procs : attempt[p] \in 0..retry_count

====
